---- MODULE Spec2Model ----
(***************************************************************************)
(* The chunked FASTQ record extractor of src/formats/fastq.rs             *)
(* (FastqParser): a cursor `pos` over a byte chunk `buf` with a           *)
(* final-chunk flag `last`.  Bytes are their ASCII codes; a byte string   *)
(* is a sequence of bytes.  Rust offsets are 0-based and slices are       *)
(* half-open; Slice and At translate them.                                *)
(***************************************************************************)
EXTENDS Integers, Sequences, FiniteSets, TLC

VARIABLES
    input,   \* the whole byte stream the caller reads from
    base,    \* offset in input of the first byte of the current chunk
    buf,     \* FastqParser.buf : the current chunk
    last,    \* FastqParser.last: no byte will follow this chunk
    pos,     \* FastqParser.pos : the cursor
    pc,      \* "start" (no parser yet), "iter" (parser built), "failed"
    res,     \* outcome of the latest call
    ret,     \* what the latest NextRecord call returned
    at,      \* the cursor before the latest NextRecord call
    out,     \* records yielded so far over the stream
    stage,   \* "single", "whole", "first", "second": which pass this is
    whole,   \* what the pass over the whole input gave (kept for the split passes)
    split,   \* the offset the input was split at
    plan     \* how the input was laid out: its records, line ending and trailing bytes

vars == <<input, base, buf, last, pos, pc, res, ret, at, out, stage, whole, split, plan>>

----------------------------------------------------------------------------
(* Bytes *)

AT == 64
PLUS == 43
LF == 10
CR == 13

\* memchr's Option<usize>: NONE stands for None
NONE == -1

\* Rust buf[a..b]
Slice(s, a, b) == SubSeq(s, a + 1, b)

\* Rust buf[a..]
From(s, a) == SubSeq(s, a + 1, Len(s))

\* Rust buf[i]
At(s, i) == s[i + 1]

\* memchr::memchr(c, s): offset of the first byte c of s
memchr(c, s) ==
    IF \E i \in 1..Len(s) : s[i] = c
    THEN (CHOOSE i \in 1..Len(s) : s[i] = c /\ \A j \in 1..(i - 1) : s[j] # c) - 1
    ELSE NONE

\* util::memchr_both(b1, b2, s): the combined scan of step 3, the offset of
\* the first byte of s that is b1 or b2, whichever comes first
memchr_both(b1, b2, s) ==
    IF \E i \in 1..Len(s) : s[i] \in {b1, b2}
    THEN (CHOOSE i \in 1..Len(s) :
            s[i] \in {b1, b2} /\ \A j \in 1..(i - 1) : s[j] \notin {b1, b2}) - 1
    ELSE NONE

\* fasta::check_end(tail, last): the end-of-input validator
check_end(tail, final) ==
    IF ~final THEN "Ok"
    ELSE IF \A i \in 1..Len(tail) : tail[i] \in {CR, LF} THEN "Ok"
    ELSE "Invalid"

----------------------------------------------------------------------------
(* FastqParser::new *)

\* line 43: the tolerated stray terminator on a last chunk
StrayTerminator(b, final) == final /\ (At(b, 0) = CR /\ At(b, 0) = LF)

\* lines 40-55: "panic" (index out of bounds on an empty chunk),
\* "InvalidHeader", or "Ok"
new(b, final) ==
    IF Len(b) = 0 THEN "panic"
    ELSE IF At(b, 0) # AT /\ ~StrayTerminator(b, final) THEN "InvalidHeader"
    ELSE "Ok"

----------------------------------------------------------------------------
(* FastqParser::next *)

NoFields == [id |-> <<>>, seq |-> <<>>, id2 |-> <<>>, qual |-> <<>>]

NoRecord == [kind |-> "None", msg |-> "", context |-> <<>>, used |-> 0, rec |-> NoFields]

Yield(r, n) == [kind |-> "Ok", msg |-> "", context |-> <<>>, used |-> n, rec |-> r]

\* ParseError::new(m, InvalidRecord).context(c); n is buffer_used at the return
InvalidRecord(m, c, n) == [kind |-> "Err", msg |-> m, context |-> c, used |-> n, rec |-> NoFields]

\* String::from_utf8_lossy on bytes: an ASCII byte is its own character, a
\* byte that is not valid UTF-8 becomes the replacement character U+FFFD
from_utf8_lossy(s) == [i \in 1..Len(s) |-> IF s[i] < 128 THEN s[i] ELSE 65533]

DIFFERED == "Sequence and quality lengths differed"

SHORTER == "Quality length was shorter than expected"

\* faulty variant: the blank-line test of lines 67-70 left out
NeverBlank(b) == FALSE

\* lines 67-70: the remainder starts with a newline
StartsBlank(b) == At(b, 0) = LF

\* faulty variant: the terminator after the quality line not counted
QualEndShort(id2_end, seq) == id2_end + Len(seq)

\* line 95: the arithmetic end of the quality line
QualEnd(id2_end, seq) == id2_end + Len(seq) + 1

\* faulty variant: every chunk treated as the last one
NeverNeedsMore(final) == FALSE

\* line 98: a chunk that is not the last one needs more bytes
NeedsMore(final) == ~final

\* line 103
windows_ending(seq) == IF Len(seq) > 0 /\ seq[Len(seq)] = CR THEN 1 ELSE 0

\* faulty variant: the missing terminator still counted as consumed
UsedWithTerminator(qual_end, w) == qual_end

\* faulty variant: the '\r' of a windows ending not taken off
UsedAtEndNoCR(qual_end, w) == qual_end - 1

\* line 107: bytes consumed when the file ends without its last terminator
UsedAtEnd(qual_end, w) == qual_end - (1 + w)

\* faulty variant: only the byte after the quality end tested
DifferByNextByte(b, qual_end) ==
    /\ qual_end + 1 < Len(b)
    /\ At(b, qual_end) # AT
    /\ At(b, qual_end) # CR
    /\ At(b, qual_end) # LF

\* lines 112-116
LengthsDiffer(b, qual_end) ==
    \/ /\ qual_end + 1 < Len(b)
       /\ At(b, qual_end) # AT
       /\ At(b, qual_end) # CR
       /\ At(b, qual_end) # LF
    \/ /\ qual_end < Len(b)
       /\ At(b, qual_end - 1) # LF

\* faulty variant: the '\r' left on the fields
NoStripCR(s) == s

\* lines 127-136: drop one trailing '\r'
StripCR(s) == IF Len(s) > 0 /\ s[Len(s)] = CR THEN Slice(s, 0, Len(s) - 1) ELSE s

\* faulty variant: the special case of lines 137-146 left out
NoNewlineInQuality(q) == FALSE

\* line 137
EndsWithNewline(q) == Len(q) > 0 /\ q[Len(q)] = LF

\* lines 110-149, once the quality bounds are known
Finish(b, id, seq, id2, id2_end, qual_end, buffer_used) ==
    LET qual == Slice(b, id2_end, qual_end - 1) IN
    IF LengthsDiffer(b, qual_end)
    THEN InvalidRecord(DIFFERED, from_utf8_lossy(id), buffer_used)
    ELSE IF EndsWithNewline(StripCR(qual))
    THEN InvalidRecord(SHORTER, from_utf8_lossy(StripCR(id)), buffer_used)
    ELSE Yield([id |-> StripCR(id), seq |-> StripCR(seq), id2 |-> id2,
                qual |-> StripCR(qual)], buffer_used)

\* lines 93-109: the quality line by arithmetic, then lines 110-149
Quality(b, final, id, seq, id2, id2_end) ==
    LET qual_end == QualEnd(id2_end, seq)
        w == windows_ending(seq)
    IN  IF qual_end > Len(b)
        THEN IF NeedsMore(final) THEN NoRecord
             ELSE IF qual_end # Len(b) + 1 + w THEN NoRecord
             ELSE Finish(b, id, seq, id2, id2_end, qual_end - w, UsedAtEnd(qual_end, w))
        ELSE Finish(b, id, seq, id2, id2_end, qual_end, qual_end)

\* lines 62-150 on b = self.buf[self.pos..]
next(b, final) ==
    IF Len(b) = 0 THEN NoRecord
    ELSE IF StartsBlank(b) THEN NoRecord
    ELSE
    LET m1 == memchr(LF, b) IN
    IF m1 = NONE THEN NoRecord ELSE
    LET id_end == m1 + 1
        id == Slice(b, 1, id_end - 1)
        m2 == memchr_both(LF, PLUS, From(b, id_end))
    IN
    IF m2 = NONE THEN NoRecord ELSE
    LET seq_end == id_end + m2 + 1
        seq == Slice(b, id_end, seq_end - 1)
        m3 == memchr(LF, From(b, seq_end))
    IN
    IF m3 = NONE THEN NoRecord ELSE
    LET id2_end == seq_end + m3 + 1
        id2 == Slice(b, seq_end, id2_end - 1)
    IN Quality(b, final, id, seq, id2, id2_end)

\* faulty variant: a yielded record does not move the cursor
StayPut(p, r) == p

\* faulty variant: a call that yields nothing skips one byte
SkipOnNone(p, r) == IF r.kind = "Ok" THEN p + r.used ELSE IF r.kind = "None" THEN p + 1 ELSE p

\* faulty variant: an error moves the cursor too
AdvanceOnError(p, r) == IF r.kind = "None" THEN p ELSE p + r.used

\* line 148: only a yielded record moves the cursor
Advance(p, r) == IF r.kind = "Ok" THEN p + r.used ELSE p

\* lines 164-166
eof(b, p, final) == check_end(From(b, p), final)

\* lines 168-170
used(p) == p

----------------------------------------------------------------------------
(* Inputs: raw chunks *)

MaxLen == 6

Bytes == {AT, PLUS, LF, CR, 65}

RECURSIVE Strings(_, _)
Strings(S, n) ==
    IF n = 0 THEN {<<>>}
    ELSE LET shorter == Strings(S, n - 1)
         IN  shorter \cup {Append(s, c) : s \in {t \in shorter : Len(t) = n - 1}, c \in S}

Chunks == Strings(Bytes, MaxLen)

NoPlan == [recs |-> <<>>, eol |-> <<LF>>, term |-> TRUE, kind |-> "raw", tail |-> <<>>]

NoWhole == [out |-> <<>>, eof |-> "none"]

----------------------------------------------------------------------------
(* Inputs: streams of FASTQ records *)

MaxRecs == 2

MaxBlank == 3

Eols == {<<LF>>, <<CR, LF>>}

\* the four lines of a record, the last one without its terminator
EncBare(r, eol) ==
    <<AT>> \o r.id \o eol \o r.seq \o eol \o <<PLUS>> \o r.id2 \o eol \o r.qual

Enc(r, eol) == EncBare(r, eol) \o eol

RECURSIVE EncAll(_, _)
EncAll(rs, eol) == IF rs = <<>> THEN <<>> ELSE Enc(Head(rs), eol) \o EncAll(Tail(rs), eol)

\* the bytes of the first n records of plan p
Prefix(p, n) ==
    IF n = Len(p.recs) /\ n > 0 /\ ~p.term
    THEN EncAll(SubSeq(p.recs, 1, n - 1), p.eol) \o EncBare(p.recs[n], p.eol)
    ELSE EncAll(SubSeq(p.recs, 1, n), p.eol)

StreamBytes(p) == Prefix(p, Len(p.recs)) \o p.tail

Rec(i, s, j, q) == [id |-> i, seq |-> s, id2 |-> j, qual |-> q]

\* well-formed records: len(quality) = len(sequence), every field may be empty
Recs ==
    {Rec(h[1], sq[1], h[2], sq[2]) :
        h \in {<< <<>>, <<89>> >>, << <<88>>, <<>> >>},
        sq \in {<< <<>>, <<>> >>, << <<65>>, <<73>> >>, << <<65, 67>>, <<64, 73>> >>}}

RECURSIVE Lists(_, _)
Lists(S, n) ==
    IF n = 0 THEN {<<>>}
    ELSE LET shorter == Lists(S, n - 1)
         IN  shorter \cup {Append(l, x) : l \in {t \in shorter : Len(t) = n - 1}, x \in S}

RECURSIVE Concat(_)
Concat(ls) == IF ls = <<>> THEN <<>> ELSE Head(ls) \o Concat(Tail(ls))

\* one to MaxBlank blank lines, each "\n" or "\r\n"
BlankTails == {Concat(l) : l \in Lists(Eols, MaxBlank) \ {<<>>}}

TailRecs == {Rec(<<88>>, <<65>>, <<>>, <<73>>), Rec(<<>>, <<>>, <<>>, <<>>),
             Rec(<<88>>, <<65, 67>>, <<89>>, <<64, 73>>)}

\* a truncated record: a proper prefix of a well-formed record that is not
\* itself a complete record
TruncTails(eol) ==
    UNION {{Slice(Enc(r, eol), 0, k) : k \in 1..Len(Enc(r, eol))} : r \in TailRecs} \
    ({Enc(r, eol) : r \in TailRecs} \cup {EncBare(r, eol) : r \in TailRecs})

\* other trailing bytes that are not blank and do not form a record
JunkTails == {<<65>>, <<65, 65>>, <<65, LF>>, <<LF, 65>>, <<LF, AT, LF>>}

\* complete four-line records whose quality is shorter or longer than the sequence
BadRecs ==
    {Rec(<<88>>, s, <<>>, q) :
        s \in {<<>>, <<65>>, <<65, 67>>, <<65, 67, 71>>},
        q \in {<<>>, <<73>>, <<73, 73>>, <<73, 73, 73>>}} \ Recs

IsBad(r) == Len(r.qual) # Len(r.seq)

MismatchTails(eol) ==
    {Enc(r, eol) : r \in {x \in BadRecs : IsBad(x)}}
    \cup {EncBare(r, eol) : r \in {x \in BadRecs : IsBad(x)}}
    \cup {Enc(r, eol) \o Enc(g, eol) : r \in {x \in BadRecs : IsBad(x)}, g \in TailRecs}

\* the records that come before trailing bytes
Before == Lists(TailRecs, MaxRecs) \ {<<>>}

Plans ==
    {[recs |-> rs, eol |-> e, term |-> t, kind |-> "none", tail |-> <<>>] :
        rs \in Lists(Recs, MaxRecs) \ {<<>>}, e \in Eols, t \in BOOLEAN}
    \cup UNION {{[recs |-> rs, eol |-> e, term |-> TRUE, kind |-> "blank", tail |-> b] :
        rs \in Before, b \in BlankTails} : e \in Eols}
    \cup UNION {{[recs |-> rs, eol |-> e, term |-> TRUE, kind |-> "truncated", tail |-> b] :
        rs \in Before, b \in TruncTails(e)} : e \in Eols}
    \cup UNION {{[recs |-> rs, eol |-> e, term |-> TRUE, kind |-> "junk", tail |-> b] :
        rs \in Before, b \in JunkTails} : e \in Eols}
    \cup UNION {{[recs |-> rs, eol |-> e, term |-> TRUE, kind |-> "mismatch", tail |-> b] :
        rs \in Lists(TailRecs, 1), b \in MismatchTails(e)} : e \in Eols}

----------------------------------------------------------------------------
(* The caller's operations *)

Common ==
    /\ base = 0
    /\ buf = input
    /\ pos = 0
    /\ pc = "start"
    /\ res = "start"
    /\ ret = NoRecord
    /\ at = 0
    /\ out = <<>>
    /\ whole = NoWhole
    /\ split = 0

\* any chunk of at most MaxLen bytes, with either flag
Init ==
    /\ input \in Chunks
    /\ last \in BOOLEAN
    /\ stage = "single"
    /\ plan = NoPlan
    /\ Common

\* a stream of records, first read whole as one final chunk
InitStream ==
    /\ plan \in Plans
    /\ input = StreamBytes(plan)
    /\ last = TRUE
    /\ stage = "whole"
    /\ Common

\* FastqParser::new(buf, last)
New ==
    /\ pc = "start"
    /\ LET r == new(buf, last) IN
       /\ res' = IF r = "Ok" THEN "New" ELSE r
       /\ pc' = IF r = "Ok" THEN "iter" ELSE "failed"
    /\ UNCHANGED <<input, base, buf, last, pos, ret, at, out, stage, whole, split, plan>>

\* FastqParser::from_buffer(buf, last)
FromBuffer ==
    /\ pc = "start"
    /\ res' = "FromBuffer"
    /\ pc' = "iter"
    /\ UNCHANGED <<input, base, buf, last, pos, ret, at, out, stage, whole, split, plan>>

\* Iterator::next
NextRecord ==
    /\ pc = "iter"
    /\ LET r == next(From(buf, pos), last) IN
       /\ pos' = Advance(pos, r)
       /\ at' = pos
       /\ ret' = r
       /\ res' = IF r.kind = "Err" THEN r.msg ELSE IF r.kind = "Ok" THEN "Record" ELSE "None"
       /\ out' = IF r.kind = "Ok" THEN Append(out, r.rec) ELSE out
    /\ UNCHANGED <<input, base, buf, last, pc, stage, whole, split, plan>>

\* RecParser::eof, once the iteration has ended with no record
Eof ==
    /\ pc = "iter"
    /\ res = "None"
    /\ res' = IF eof(buf, pos, last) = "Ok" THEN "EofOk" ELSE "Invalid"
    /\ pc' = "done"
    /\ UNCHANGED <<input, base, buf, last, pos, ret, at, out, stage, whole, split, plan>>

\* the same input again, now split: its first k bytes as a chunk that is not
\* the last one (test_fastq_across_buffer)
StartSplit ==
    /\ stage = "whole"
    /\ pc = "done"
    /\ plan.kind = "none"
    /\ \E k \in 0..Len(input) :
        /\ split' = k
        /\ buf' = Slice(input, 0, k)
    /\ whole' = [out |-> out, eof |-> res]
    /\ stage' = "first"
    /\ last' = FALSE
    /\ base' = 0
    /\ pos' = 0
    /\ at' = 0
    /\ out' = <<>>
    /\ pc' = "iter"
    /\ res' = "FromBuffer"
    /\ ret' = NoRecord
    /\ UNCHANGED <<input, plan>>

\* the caller drops the used() bytes and hands over the rest as the last chunk
Refill ==
    /\ stage = "first"
    /\ pc = "iter"
    /\ res = "None"
    /\ stage' = "second"
    /\ base' = base + used(pos)
    /\ buf' = From(input, base + used(pos))
    /\ last' = TRUE
    /\ pos' = 0
    /\ at' = 0
    /\ pc' = "iter"
    /\ res' = "FromBuffer"
    /\ ret' = NoRecord
    /\ UNCHANGED <<input, out, whole, split, plan>>

Next == New \/ FromBuffer \/ NextRecord \/ Eof

Spec == Init /\ [][Next]_vars

NextStream == New \/ FromBuffer \/ NextRecord \/ Eof \/ StartSplit \/ Refill

SpecStream == InitStream /\ [][NextStream]_vars

\* raw chunks and streams together
InitAny == Init \/ InitStream

SpecAny == InitAny /\ [][NextStream]_vars

----------------------------------------------------------------------------
(* Properties *)

Errors == {DIFFERED, SHORTER}

\* the records a caller gets by calling next on one chunk until it yields no
\* record (or an error), from cursor p on
RECURSIVE ParseAll(_, _, _)
ParseAll(b, p, final) ==
    LET r == next(From(b, p), final) IN
    IF r.kind = "Ok" THEN <<r.rec>> \o ParseAll(b, Advance(p, r), final) ELSE <<>>

\* the same stream written with "\n" line endings
AsLf(p) == [p EXCEPT !.eol = <<LF>>]

HasCR(s) == \E i \in 1..Len(s) : s[i] = CR

\* Rust bounds checks: buf[a..e], buf[a..] and buf[i] panic outside these
SliceOk(b, a, e) == 0 <= a /\ a <= e /\ e <= Len(b)

FromOk(b, a) == 0 <= a /\ a <= Len(b)

AtOk(b, i) == 0 <= i /\ i < Len(b)

\* lines 40-45: every index new computes on b is inside b
NewInBounds(b, final) ==
    /\ AtOk(b, 0)
    /\ At(b, 0) # AT => SliceOk(b, 0, IF Len(b) < 64 THEN Len(b) ELSE 64)

\* lines 110-116: the quality slice and the bytes read around its end
FinishInBounds(b, id2_end, qual_end) ==
    /\ SliceOk(b, id2_end, qual_end - 1)
    /\ qual_end + 1 < Len(b) => AtOk(b, qual_end)
    /\ qual_end < Len(b) => AtOk(b, qual_end - 1)

\* lines 62-116: every slice and index next computes on b is inside b
NextInBounds(b, final) ==
    IF Len(b) = 0 THEN TRUE
    ELSE IF ~AtOk(b, 0) THEN FALSE
    ELSE IF StartsBlank(b) THEN TRUE
    ELSE
    LET m1 == memchr(LF, b) IN
    IF m1 = NONE THEN TRUE ELSE
    LET id_end == m1 + 1 IN
    IF ~(SliceOk(b, 1, id_end - 1) /\ FromOk(b, id_end)) THEN FALSE ELSE
    LET m2 == memchr_both(LF, PLUS, From(b, id_end)) IN
    IF m2 = NONE THEN TRUE ELSE
    LET seq_end == id_end + m2 + 1 IN
    IF ~(SliceOk(b, id_end, seq_end - 1) /\ FromOk(b, seq_end)) THEN FALSE ELSE
    LET seq == Slice(b, id_end, seq_end - 1)
        m3 == memchr(LF, From(b, seq_end))
    IN
    IF m3 = NONE THEN TRUE ELSE
    LET id2_end == seq_end + m3 + 1
        qual_end == QualEnd(id2_end, seq)
        w == windows_ending(seq)
    IN
    IF ~SliceOk(b, seq_end, id2_end - 1) THEN FALSE
    ELSE IF qual_end > Len(b)
    THEN IF NeedsMore(final) \/ qual_end # Len(b) + 1 + w THEN TRUE
         ELSE FinishInBounds(b, id2_end, qual_end - w)
    ELSE FinishInBounds(b, id2_end, qual_end)

\* the number of records the stream was built from
n == Len(plan.recs)

\* offset in input of the first byte after the first k records
EndOf(k) == Len(Prefix(plan, k))

SameFields(a, b) == a.id = b.id /\ a.seq = b.seq /\ a.qual = b.qual

\* the records yielded so far are the first records of the stream, in order
YieldedInOrder == Len(out) <= n /\ \A i \in 1..Len(out) : SameFields(out[i], plan.recs[i])

\* C1: a final chunk made of well-formed records (any field empty, "\n" or
\* "\r\n" line endings, the last terminator optional) yields exactly those
\* records in order, id, sequence and quality equal to the line contents
\* without the '\r', then "no record"; no step yields an error.
C1_FinalChunkYieldsItsRecords ==
    (stage = "whole" /\ plan.kind = "none") =>
        /\ res \notin Errors
        /\ YieldedInOrder
        /\ (res \in {"None", "EofOk", "Invalid"} => Len(out) = n)

C1_Witness ==
    /\ stage = "whole" /\ plan.kind = "none"
    /\ n = 2 /\ plan.eol = <<CR, LF>> /\ ~plan.term
    /\ res = "None" /\ Len(out) = 2 /\ out[2].seq = <<65, 67>>

\* C2: the prefix input[0..k] read as a chunk that is not final, then
\* input[used..] read as the final chunk, yield together the records of the
\* whole input read as one final chunk, for every k, and the tail validates
\* in both runs.
C2_SplitYieldsTheSameRecords ==
    /\ stage \in {"first", "second"} => res \notin Errors
    /\ (stage = "second" /\ res \in {"None", "EofOk", "Invalid"}) => out = whole.out
    /\ (stage = "second" /\ pc = "done") => (res = "EofOk" /\ whole.eof = "EofOk")

C2_Witness ==
    /\ stage = "second" /\ pc = "done"
    /\ 0 < base /\ base < split /\ split < Len(input)
    /\ Len(out) = 2 /\ out = whole.out

\* C3: a record whose four lines are all in the chunk and whose quality line
\* is shorter or longer than its sequence line makes the step for that record
\* yield InvalidRecord, never a record and never "no record".
C3_MismatchYieldsInvalidRecord ==
    (/\ stage = "whole" /\ plan.kind = "mismatch" /\ pc = "iter"
     /\ res \in {"Record", "None"} \cup Errors
     /\ at = EndOf(n) /\ Len(out) >= n)
    => res \in Errors

\* C4: a last record that ends the chunk right after its last quality byte is
\* yielded, the cursor at the end of the chunk, when the chunk is final; as a
\* chunk that is not final the same bytes give "no record" and the cursor
\* stays before that record.
C4_LastRecordWithoutNewline ==
    (plan.kind = "none" /\ ~plan.term) =>
        /\ stage = "whole" =>
            /\ res \notin Errors
            /\ YieldedInOrder
            /\ (res = "None" => Len(out) = n)
            /\ (Len(out) = n => pos = Len(buf))
        /\ (stage = "first" /\ split = Len(input)) =>
            /\ res \notin Errors
            /\ Len(out) < n
            /\ (res = "None" => Len(out) = n - 1 /\ pos = EndOf(n - 1))

C4_Witness ==
    /\ plan.kind = "none" /\ ~plan.term /\ plan.eol = <<CR, LF>>
    /\ stage = "first" /\ split = Len(input)
    /\ res = "None" /\ Len(out) = n - 1 /\ n = 2
    /\ whole.out # out /\ Len(whole.out) = n

\* C5: Construct fails with InvalidHeader if and only if the first byte is
\* not '@' and the chunk is not a final chunk starting with '\r' or '\n'.
C5_InvalidHeaderIff ==
    (res \in {"New", "InvalidHeader"}) =>
        /\ out = <<>>
        /\ (res = "InvalidHeader") <=>
             (At(buf, 0) # AT /\ ~(last /\ At(buf, 0) \in {CR, LF}))

\* the blank lines of a tail
Lines(t) == Cardinality({i \in 1..Len(t) : t[i] = LF})

AfterRecords(verdict) ==
    /\ res \notin Errors
    /\ Len(out) <= n
    /\ (res = "None" => Len(out) = n)
    /\ (pc = "done" => res = verdict)

C8_CursorMonotoneInBounds ==
    /\ 0 <= at /\ at <= pos /\ pos <= Len(buf)
    /\ res \in {"start", "New", "FromBuffer", "InvalidHeader", "panic"} => pos = 0

C8_Witness == res = "Record" /\ pos = Len(buf) /\ at > 0 /\ ~last /\ stage = "first"

\* C9 as stated: a step that yields InvalidRecord has moved the cursor forward.
C9_ErrorAdvancesCursor == res \in Errors => pos > at

\* C9, amended: a step that yields InvalidRecord leaves the cursor where it
\* was, at the first byte of the offending record.
C9_ErrorLeavesCursor == res \in Errors => pos = at

C9_Witness == res = DIFFERED /\ pos = at /\ at > 0 /\ plan.kind = "mismatch"

\* C10: id2 is the text of the second header line after its '+', without the
\* '+' and without the line terminator; empty when the line is '+' alone.
C10_Id2AfterMarker ==
    (plan.kind = "none" /\ res = "Record" /\ Len(out) <= n)
    => out[Len(out)].id2 = plan.recs[Len(out)].id2


\* C11: a final chunk of well-formed records written with "\r\n" throughout
\* yields the records, in number, order and field contents, that the same
\* input written with "\n" yields, and no yielded field contains a '\r'.
C11_CrlfSameAsLf ==
    (/\ stage = "whole" /\ plan.kind = "none" /\ plan.eol = <<CR, LF>>
     /\ res = "None")
    => /\ out = ParseAll(StreamBytes(AsLf(plan)), 0, TRUE)
       /\ \A i \in 1..Len(out) :
            ~HasCR(out[i].id) /\ ~HasCR(out[i].seq) /\ ~HasCR(out[i].id2) /\ ~HasCR(out[i].qual)


\* C12: on a chunk that is not the last one, a step yields a record only when
\* the four lines of the record, the newline that ends the quality line
\* included, lie inside the chunk: the last byte consumed is '\n'; any other
\* step leaves the cursor before the record.
C12_NonFinalRecordEndsWithNewline ==
    (~last /\ pc = "iter") =>
        /\ res = "Record" => (pos > at /\ pos <= Len(buf) /\ At(buf, pos - 1) = LF)
        /\ res \in {"None"} \cup Errors => pos = at


\* the latest call was a NextRecord step
Stepped == pc = "iter" /\ res \in {"Record", "None"} \cup Errors

\* the bytes from offset p on start with a blank line, "\n" or "\r\n"
BlankLineAt(b, p) ==
    /\ p < Len(b)
    /\ \/ At(b, p) = LF
       \/ At(b, p) = CR /\ p + 1 < Len(b) /\ At(b, p + 1) = LF

\* C13: a step on a remainder that is empty or begins with a blank line (a
\* bare "\n", or the '\r' of a "\r\n") yields no record and no error and
\* leaves the cursor where it was, whatever follows and whatever the flag.
C13_BlankRemainderYieldsNothing ==
    (Stepped /\ (at = Len(buf) \/ BlankLineAt(buf, at)))
    => (res = "None" /\ pos = at)


\* offset in buf of the computed quality end of the latest step (buffer_used
\* past the cursor the step started at)
ComputedEnd == at + ret.used

Follower == {AT, CR, LF}

\* C14 as stated: when a step yields a record and at least one byte of the
\* chunk follows the computed end, that byte is '@', '\r' or '\n' and the
\* last byte consumed is '\n'.
C14_OneByteFollows ==
    (Stepped /\ res = "Record" /\ ComputedEnd < Len(buf))
    => (At(buf, ComputedEnd) \in Follower /\ At(buf, ComputedEnd - 1) = LF)

\* C14, amended: the byte after the computed end is tested when at least two
\* bytes follow it, the last byte consumed when at least one follows; a
\* failed test gives "Sequence and quality lengths differed", and nothing
\* else does.
C14_TwoBytesFollow ==
    Stepped =>
        /\ (res = "Record" /\ ComputedEnd + 1 < Len(buf)) => At(buf, ComputedEnd) \in Follower
        /\ (res = "Record" /\ ComputedEnd < Len(buf)) => At(buf, ComputedEnd - 1) = LF
        /\ res = DIFFERED =>
             \/ ComputedEnd + 1 < Len(buf) /\ At(buf, ComputedEnd) \notin Follower
             \/ ComputedEnd < Len(buf) /\ At(buf, ComputedEnd - 1) # LF

C14_Witness ==
    /\ Stepped /\ res = "Record" /\ at > 0
    /\ ComputedEnd + 1 = Len(buf) /\ At(buf, ComputedEnd) = 65


\* complete records whose quality is exactly one byte shorter than a
\* sequence of at least one byte
ShortByOne == {r \in BadRecs : Len(r.seq) >= 1 /\ Len(r.qual) + 1 = Len(r.seq)}

\* C15: on a final chunk with "\n" line endings whose last record has a
\* quality line one byte shorter than its sequence line and ends with the
\* newline that is the last byte of the chunk, the step for that record
\* yields InvalidRecord "Quality length was shorter than expected" with the
\* id of the record as context: not a record, not "no record".
C15_QualityOneShort ==
    \A r \in ShortByOne :
        (/\ stage = "whole" /\ plan.kind = "mismatch" /\ plan.eol = <<LF>>
         /\ plan.tail = Enc(r, <<LF>>)
         /\ Stepped /\ at = EndOf(n))
        => (res = SHORTER /\ ret.kind = "Err" /\ ret.context = r.id)

C15_Witness ==
    /\ stage = "whole" /\ plan.kind = "mismatch" /\ plan.eol = <<LF>> /\ n = 1
    /\ plan.tail = Enc(Rec(<<88>>, <<65, 67>>, <<>>, <<73>>), <<LF>>)
    /\ Stepped /\ at = EndOf(n) /\ at > 0
    /\ res = SHORTER /\ ret.context = <<88>>


\* C16: for every chunk (empty, mixed line endings, truncated at any offset)
\* and either flag, construction and every step read inside the chunk only:
\* no index or slice bound falls outside it.
C16_NoReadOutsideChunk ==
    /\ res \in {"New", "InvalidHeader", "panic"} => (NewInBounds(buf, last) /\ res # "panic")
    /\ pc = "iter" => (FromOk(buf, pos) /\ NextInBounds(From(buf, pos), last))


\* C17: every yielded record begins at a '@': the byte at the cursor before
\* a step that yields a record is '@', whichever constructor built the parser.
C17_RecordBeginsAtMarker ==
    (Stepped /\ res = "Record") => (AtOk(buf, at) /\ At(buf, at) = AT)


\* C18: a step that returns "no record" leaves the cursor where it was, and
\* the next call on the same parser returns "no record" again and leaves the
\* parser as it is (so does every later call).
C18_NoRecordIsStable ==
    (pc = "iter" /\ res = "None") =>
        /\ pos = at
        /\ LET r == next(From(buf, pos), last) IN
            r.kind = "None" /\ Advance(pos, r) = pos

C18_Witness ==
    /\ pc = "iter" /\ res = "None" /\ ~last
    /\ Len(out) >= 1 /\ 0 < pos /\ pos < Len(buf)


\* C19: a step that yields a record moves the cursor strictly forward, so
\* the records yielded are at most as many as the bytes consumed, which are
\* at most the bytes of the input: repeating the step until it yields no
\* record or an error ends after finitely many steps.
C19_RecordAdvancesCursor ==
    /\ (Stepped /\ res = "Record") => pos > at
    /\ Len(out) <= base + pos
    /\ pos <= Len(buf)
    /\ base + pos <= Len(input)

C19_Witness ==
    /\ Stepped /\ res = "Record" /\ Len(out) = 2
    /\ 0 < at /\ at < pos /\ pos = Len(buf) /\ base = 0

====
